---- MODULE Spec2Model ----
(***************************************************************************)
(* A model of the invocation engine of faast.js / cloudify:                *)
(*                                                                         *)
(*  - the process backend (callFunction, stop, cleanup, setConcurrency),   *)
(*    whose calls go through a Funnel and each fork a child process;       *)
(*  - the function facade (CloudFunction.cloudifyWithResponse) and         *)
(*    processResponse, over a backend whose callFunction may resolve with  *)
(*    a value Return, resolve with an error Return, or reject.             *)
(*                                                                         *)
(* The Funnel class (../funnel) and FunctionMetricsMap (./shared) are      *)
(* imported by the sources but their code is not part of them: they are    *)
(* modelled from the specification's description of their contracts.       *)
(***************************************************************************)
EXTENDS Integers, Sequences, FiniteSets, TLC

\* ------------------------------------------------------------------ bounds
MaxCalls == 3          \* calls made on the process backend
MaxConcurrency == 2    \* setConcurrency is called with 0..MaxConcurrency
MaxStops == 2          \* calls of stop() / cleanup()
MaxFacadeCalls == 2    \* invocations of proxies of the facade
MaxTime == 3           \* clock readings (Date.now()) are 1..MaxTime
MaxGcTime == 3         \* the garbage collector's time runs from 0 to MaxGcTime

Calls == 1..MaxCalls
Stops == 1..MaxStops
ConcurrencyValues == 0..MaxConcurrency
FacadeCalls == 1..MaxFacadeCalls
Times == 1..MaxTime

Min(a, b) == IF a < b THEN a ELSE b
Max(a, b) == IF a > b THEN a ELSE b

\* ------------------------------------------------------------------ state
VARIABLES
    \* --- Funnel (state.callFunnel)
    pendingQueue,     \* FIFO of pushed operations not yet admitted
    executing,        \* operations started and not yet settled
    maxConcurrency,   \* the cap: Cap(n), or Unbounded when never set
    \* --- process backend
    nextCall,         \* the next call to be made (calls are numbered in push order)
    outcome,          \* per call: the promise callFunction returned
    child,            \* per call: the child process forked for it
    childProcesses,   \* state.resources.childProcesses
    killed,           \* children that stop() has sent a kill signal
    stopState,        \* per stop() call: "idle", "waiting", "resolved"
    awaiting,         \* per stop() call: children whose exit it still awaits
    \* --- history
    admitOrder,       \* the calls whose operation was started, in start order
    lastOp,           \* the operation the last step performed
    \* --- function facade (CloudFunction)
    clock,            \* Date.now()
    invocation,       \* per proxy invocation: its promise and its callRequest
    functionMetrics,  \* CloudFunction.functionMetrics, per function name
    last,             \* history: the last completed invocation
    \* --- cloudifyAll / cloudifyAllWithResponse
    wrapped,          \* history: the last module wrapped and the result
    \* --- queue-relayed transport
    requests,         \* Calls published on the request channel, not yet executed
    channel,          \* Returns in flight on the shared response channel
    table,            \* the correlation table: callId -> the outstanding invocation
    settledBy,        \* history: per invocation, whose Call the Return that settled it answers
    discarded,        \* history: whose Calls the Returns that were discarded answer
    \* --- garbage collector
    gcTime,           \* the time (in the unit of the retention threshold)
    inst,             \* per instance: its options and where it is in its life
    resources,        \* the cloud: the resources present, as <<owner, kind>>
    pass,             \* per instance: its reclamation pass
    \* --- AWS cleanup
    state,            \* the AWSVariables cleanup was called with
    account,          \* the AWS account: what exists of the function's resources
    AttachedPolicies, \* deleteRole: the policies the listing returned
    detaching,        \* deleteRole: detach requests issued and not yet settled
    attempted,        \* history: the requests cleanup has issued
    failed,           \* history: the requests that failed
    cleanupPc         \* where cleanup is: the request it awaits, or how it ended

procVars == <<pendingQueue, executing, maxConcurrency, nextCall, outcome, child,
              childProcesses, killed, stopState, awaiting, admitOrder, lastOp>>

facadeVars == <<clock, invocation, functionMetrics, last>>

\* What the steps of the process backend, and those of the facade, leave alone.
wrapVars == <<wrapped>>

queueVars == <<requests, channel, table, settledBy, discarded>>

gcVars == <<gcTime, inst, resources, pass>>

cleanupVars == <<state, account, AttachedPolicies, detaching, attempted, failed, cleanupPc>>

notProc == <<facadeVars, wrapVars, queueVars, gcVars, cleanupVars>>

notFacade == <<procVars, wrapVars, queueVars, gcVars, cleanupVars>>

notWrap == <<procVars, facadeVars, queueVars, gcVars, cleanupVars>>

notQueue == <<procVars, wrapVars, gcVars, cleanupVars>>

notGc == <<procVars, facadeVars, wrapVars, queueVars, cleanupVars>>

notCleanup == <<procVars, facadeVars, wrapVars, queueVars, gcVars>>

vars == <<procVars, facadeVars, wrapVars, queueVars, gcVars, cleanupVars>>

\* ------------------------------------------------------------------ Funnel
\* The cap of a funnel whose setMaxConcurrency was never called, and a cap of n.
Unbounded == [bounded |-> FALSE, n |-> 0]
Cap(n) == [bounded |-> TRUE, n |-> n]

\* How many queued operations a funnel with nRunning running operations admits.
NumAdmit(q, nRunning, cap) ==
    IF ~cap.bounded THEN Len(q)
    ELSE Min(Len(q), Max(0, cap.n - nRunning))

\* The operations admitted, in queue order.
Admitted(q, nRunning, cap) == SubSeq(q, 1, NumAdmit(q, nRunning, cap))

\* The queue left after admission.
Remaining(q, nRunning, cap) == SubSeq(q, NumAdmit(q, nRunning, cap) + 1, Len(q))

Range(s) == {s[i] : i \in 1..Len(s)}

\* History: the operation a step performs, its argument (a call, a cap, a stop
\* call) and how many funnel operations the step started.
Op(op, arg, started) == [op |-> op, arg |-> arg, started |-> started]

\* ------------------------------------------------------- process backend
\* The executor of callFunction's promise, run when the funnel starts the
\* operation: fork a child and add it to state.resources.childProcesses.
Fork(ch, S) == [c \in Calls |-> IF c \in S THEN "alive" ELSE ch[c]]

AddChildren(procs, S) == procs \cup S

\* The funnel admits what it can from queue q with run running under cap, and
\* every admitted operation is started.
Dispatch(q, run, cap, ch, procs) ==
    LET started == Admitted(q, Cardinality(run), cap)
    IN  /\ pendingQueue' = Remaining(q, Cardinality(run), cap)
        /\ executing' = run \cup Range(started)
        /\ maxConcurrency' = cap
        /\ child' = Fork(ch, Range(started))
        /\ childProcesses' = AddChildren(procs, Range(started))
        /\ admitOrder' = admitOrder \o started

\* The promise of call c settles with `how`; a settled promise stays as it is.
Settled(c, how) == [outcome EXCEPT ![c] = IF @ = "pending" THEN how ELSE @]

ProcInit ==
    /\ pendingQueue = <<>>
    /\ executing = {}
    /\ maxConcurrency = Unbounded
    /\ nextCall = 1
    /\ outcome = [c \in Calls |-> "none"]
    /\ child = [c \in Calls |-> "none"]
    /\ childProcesses = {}
    /\ killed = {}
    /\ stopState = [s \in Stops |-> "idle"]
    /\ awaiting = [s \in Stops |-> {}]
    /\ admitOrder = <<>>
    /\ lastOp = Op("init", 0, 0)

\* Mutant: the operation is started at once, without passing through the funnel.
callFunctionDirect(c) ==
    /\ pendingQueue' = pendingQueue
    /\ executing' = executing \cup {c}
    /\ maxConcurrency' = maxConcurrency
    /\ child' = Fork(child, {c})
    /\ childProcesses' = AddChildren(childProcesses, {c})
    /\ admitOrder' = Append(admitOrder, c)
    /\ outcome' = [outcome EXCEPT ![c] = "pending"]

\* Mutant: the operation is put at the head of the funnel's queue.
callFunctionFront(c) ==
    /\ Dispatch(<<c>> \o pendingQueue, executing, maxConcurrency, child, childProcesses)
    /\ outcome' = [outcome EXCEPT ![c] = "pending"]

\* Mutant: an operation the funnel cannot start at once is not queued.
callFunctionDrop(c) ==
    /\ Dispatch(IF NumAdmit(<<c>>, Cardinality(executing), maxConcurrency) = 1
                THEN Append(pendingQueue, c) ELSE pendingQueue,
                executing, maxConcurrency, child, childProcesses)
    /\ outcome' = [outcome EXCEPT ![c] = "pending"]

\* Mutant: the operation is pushed to the funnel twice.
callFunctionTwice(c) ==
    /\ Dispatch(pendingQueue \o <<c, c>>, executing, maxConcurrency, child, childProcesses)
    /\ outcome' = [outcome EXCEPT ![c] = "pending"]

\* callFunction(state, call): push the operation to the funnel.
callFunction(c) ==
    /\ Dispatch(Append(pendingQueue, c), executing, maxConcurrency, child, childProcesses)
    /\ outcome' = [outcome EXCEPT ![c] = "pending"]

CallFunction ==
    /\ nextCall <= MaxCalls
    /\ callFunction(nextCall)
    /\ nextCall' = nextCall + 1
    /\ lastOp' = Op("callFunction", nextCall, Len(admitOrder') - Len(admitOrder))
    /\ UNCHANGED <<killed, stopState, awaiting>>
    /\ UNCHANGED notProc

\* Mutant: the new cap is not passed on to the funnel.
setConcurrencyIgnored(n) ==
    UNCHANGED <<pendingQueue, executing, maxConcurrency, child, childProcesses, admitOrder>>

\* setConcurrency(state, n): state.callFunnel.setMaxConcurrency(n).
setConcurrency(n) ==
    Dispatch(pendingQueue, executing, Cap(n), child, childProcesses)

SetConcurrency(n) ==
    /\ setConcurrency(n)
    /\ lastOp' = Op("setConcurrency", n, Len(admitOrder') - Len(admitOrder))
    /\ UNCHANGED <<nextCall, outcome, killed, stopState, awaiting>>
    /\ UNCHANGED notProc

\* The promise of call c's operation settles with `how` (a promise settles at
\* most once); the funnel then releases the slot and admits the queue head, if
\* any.  ch and procs are the children as the handler leaves them.
Settle(c, how, ch, procs) ==
    IF outcome[c] = "pending"
    THEN /\ outcome' = Settled(c, how)
         /\ Dispatch(pendingQueue, executing \ {c}, maxConcurrency, ch, procs)
    ELSE /\ child' = ch
         /\ childProcesses' = procs
         /\ UNCHANGED <<outcome, pendingQueue, executing, maxConcurrency, admitOrder>>

\* child.on("message", resolve)
ChildMessage(c) ==
    /\ child[c] = "alive"
    /\ Settle(c, "value", child, childProcesses)
    /\ lastOp' = Op("message", c, Len(admitOrder') - Len(admitOrder))
    /\ UNCHANGED <<nextCall, killed, stopState, awaiting>>
    /\ UNCHANGED notProc

\* child.on("error", ...): the child leaves childProcesses and the promise rejects.
ChildError(c) ==
    /\ child[c] = "alive"
    /\ Settle(c, "error", child, childProcesses \ {c})
    /\ lastOp' = Op("error", c, Len(admitOrder') - Len(admitOrder))
    /\ UNCHANGED <<nextCall, killed, stopState, awaiting>>
    /\ UNCHANGED notProc

\* child.on("exit", (code, signal) => ...): reject when code or signal is set,
\* then delete the child; stop()'s exit listeners of this child run as well.
ExitKinds == {"code0", "code", "signal"}

ChildExit(c, how) ==
    /\ child[c] = "alive"
    /\ IF how = "code0"
       THEN /\ child' = [child EXCEPT ![c] = "exited"]
            /\ childProcesses' = childProcesses \ {c}
            /\ UNCHANGED <<outcome, pendingQueue, executing, maxConcurrency, admitOrder>>
       ELSE Settle(c, "error", [child EXCEPT ![c] = "exited"], childProcesses \ {c})
    /\ awaiting' = [s \in Stops |-> awaiting[s] \ {c}]
    /\ killed' = killed \ {c}
    /\ lastOp' = Op("exit", c, Len(admitOrder') - Len(admitOrder))
    /\ UNCHANGED <<nextCall, stopState>>
    /\ UNCHANGED notProc

\* stop(state): clearPending(), listen for the exit of every child process,
\* kill them all; the await is StopResolve.  clearPending settles every
\* queued operation as cancelled without starting it.
clearPending ==
    /\ pendingQueue' = <<>>
    /\ outcome' = [c \in Calls |-> IF c \in Range(pendingQueue) THEN "cancelled" ELSE outcome[c]]

\* Mutant: stop() kills the children and leaves the funnel's queue alone.
stopWithoutClear(s) ==
    /\ UNCHANGED <<pendingQueue, outcome>>
    /\ awaiting' = [awaiting EXCEPT ![s] = childProcesses]
    /\ killed' = killed \cup childProcesses
    /\ stopState' = [stopState EXCEPT ![s] = "waiting"]

stop(s) ==
    /\ clearPending
    /\ awaiting' = [awaiting EXCEPT ![s] = childProcesses]
    /\ killed' = killed \cup childProcesses
    /\ stopState' = [stopState EXCEPT ![s] = "waiting"]

Stop(s, kind) ==
    /\ stopState[s] = "idle"
    /\ \A t \in Stops : t < s => stopState[t] # "idle"
    /\ stop(s)
    /\ lastOp' = Op(kind, s, 0)
    /\ UNCHANGED <<executing, maxConcurrency, nextCall, child, childProcesses, admitOrder>>
    /\ UNCHANGED notProc

\* await completed: every awaited child has emitted exit.
StopResolve(s) ==
    /\ stopState[s] = "waiting"
    /\ awaiting[s] = {}
    /\ stopState' = [stopState EXCEPT ![s] = "resolved"]
    /\ lastOp' = Op("stopResolve", s, 0)
    /\ UNCHANGED <<pendingQueue, executing, maxConcurrency, nextCall, outcome, child,
                   childProcesses, killed, awaiting, admitOrder>>
    /\ UNCHANGED notProc

\* ------------------------------------------------------------ JS values
\* The value of a property that is not there.
Undefined == "<undefined>"

\* A JavaScript value as far as processResponse looks at it: undefined (or
\* null), a primitive p, or an object with the properties name, message, stack.
JsUndefined == [t |-> "undefined", p |-> Undefined,
                name |-> Undefined, message |-> Undefined, stack |-> Undefined]
Prim(p) == [t |-> "prim", p |-> p,
            name |-> Undefined, message |-> Undefined, stack |-> Undefined]
Obj(name, message, stack) == [t |-> "object", p |-> Undefined,
                              name |-> name, message |-> message, stack |-> stack]
JsFalse == Prim("false")

\* An optional number is the empty set (absent) or the set of the number.
Absent == {}
Some(n) == {n}
Val(opt) == CHOOSE n \in opt : TRUE

\* JavaScript's truthiness of an optional number: undefined and 0 are falsy.
Truthy(opt) == opt # Absent /\ opt # Some(0)

\* ------------------------------------------------------------- metrics
FnNames == {"hello", "add"}

\* FunctionMetricsMap.increment(fn, key)
increment(m, fn, key) == [m EXCEPT ![fn][key] = @ + 1]

\* FunctionMetricsMap.updateMany(fn, latencies): one more latency sample.
updateMany(m, fn, latencies) == [m EXCEPT ![fn].samples = @ + 1]

\* ------------------------------------------------------ processResponse
\* new Error(message): an undefined message gives the empty message.
NewErrorMessage(message) == IF message = Undefined THEN "" ELSE message

GeneratedStack == "<stack of new Error>"

NewError(message) ==
    [name |-> "Error", message |-> NewErrorMessage(message), stack |-> GeneratedStack]

\* Mutant: the remote stack is not copied to the rebuilt error.
rebuildErrorKeepsStack(errValue) ==
    [NewError(errValue.message) EXCEPT !.name = errValue.name]

\* error = new Error(errValue.message); error.name = errValue.name;
\* error.stack = errValue.stack
rebuildError(errValue) ==
    [NewError(errValue.message) EXCEPT !.name = errValue.name, !.stack = errValue.stack]

\* Mutant: startLatency and returnLatency are exchanged.
latenciesExchanged(returned, callRequest, now) ==
    [executionLatency |-> Val(returned.executionEnd) - Val(returned.executionStart),
     startLatency |-> now - Val(returned.executionEnd),
     returnLatency |-> Val(returned.executionStart) - callRequest.start]

\* The latencies of a Return that carries both timestamps, at wall time now.
latencies(returned, callRequest, now) ==
    [executionLatency |-> Val(returned.executionEnd) - Val(returned.executionStart),
     startLatency |-> Val(returned.executionStart) - callRequest.start,
     returnLatency |-> now - Val(returned.executionEnd)]

NoResponse ==
    [value |-> JsUndefined, error |-> {}, rawResponse |-> Undefined,
     startLatency |-> Absent, executionLatency |-> Absent, returnLatency |-> Absent]

\* processResponse(returned, callRequest, metrics), run at wall time now: the
\* Response rv and the metrics it leaves, or threw when reading
\* errValue.message raises a TypeError (errValue is undefined or null), which
\* happens before any counter is touched.
processResponse(returned, callRequest, metrics, now) ==
    LET isError == returned.type = "error"
        errValue == returned.value
        threw == isError /\ errValue.t = "undefined"
        error == IF isError THEN {rebuildError(errValue)} ELSE {}
        value == IF error # {} THEN JsFalse ELSE returned.value
        fn == callRequest.name
        hasLatencies == Truthy(returned.executionStart) /\ Truthy(returned.executionEnd)
        lat == latencies(returned, callRequest, now)
        rv == [value |-> value, error |-> error, rawResponse |-> returned.rawResponse,
               startLatency |-> IF hasLatencies THEN Some(lat.startLatency) ELSE Absent,
               executionLatency |-> IF hasLatencies THEN Some(lat.executionLatency) ELSE Absent,
               returnLatency |-> IF hasLatencies THEN Some(lat.returnLatency) ELSE Absent]
        m1 == increment(metrics, fn, "completed")
        m2 == IF hasLatencies THEN updateMany(m1, fn, lat) ELSE m1
        m3 == IF error # {} THEN increment(m2, fn, "errors") ELSE m2
    IN  IF threw
        THEN [threw |-> TRUE, rv |-> NoResponse, metrics |-> metrics]
        ELSE [threw |-> FALSE, rv |-> rv, metrics |-> m3]

\* ------------------------------------------------------- function facade
\* What a backend's callFunction may resolve with: a value Return or an error
\* Return, with or without the execution timestamps of the remote side.
Values == {JsUndefined, Prim("0"), JsFalse, Prim(""), Prim("hello")}

RemoteErrors ==
    {Obj("ValidationError", "bad input", "ValidationError: bad input at f"),
     Obj("Error", "", Undefined)}

OptTimes == {Absent} \cup {Some(t) : t \in Times}

Return(type, value, CallId, executionStart, executionEnd, rawResponse) ==
    [type |-> type, value |-> value, CallId |-> CallId,
     executionStart |-> executionStart, executionEnd |-> executionEnd,
     rawResponse |-> rawResponse]

Returns(CallId) ==
    {Return(type, value, CallId, a, e, "raw") :
        type \in {"value"}, value \in Values, a \in OptTimes, e \in OptTimes}
    \cup
    {Return(type, value, CallId, a, e, "raw") :
        type \in {"error"}, value \in RemoteErrors, a \in OptTimes, e \in OptTimes}

\* What a backend's callFunction may reject with: an Error, a string, nothing.
RejectValues ==
    {Obj("Error", "socket hang up", "Error: socket hang up at g"), Prim("timeout"),
     JsUndefined}

NoReturn == Return("none", JsUndefined, 0, Absent, Absent, Undefined)

\* An invocation of a proxy: status is the promise of the cloudifyWithResponse
\* proxy, backendCalls counts the calls of impl.callFunction made for it, and
\* name, CallId and start are its callRequest.
NoInvocation ==
    [status |-> "idle", backendCalls |-> 0, name |-> "", CallId |-> 0, start |-> 0]

\* The response of lambda.invoke: FunctionError, and the Payload (absent, or
\* its text with the Return that JSON.parse makes of it).
AwsRaw(FunctionError, Payload) == [FunctionError |-> FunctionError, Payload |-> Payload]

NoAwsRaw == AwsRaw(FALSE, {})

\* How the promise of a cloudify proxy settles: resolved with value, or rejected
\* with error.
Settlement(how, value, error) == [how |-> how, value |-> value, error |-> error]

NoSettlement == Settlement("none", JsUndefined, {})

NoLast ==
    [via |-> "none", call |-> 0, callRequest |-> NoInvocation, returned |-> NoReturn,
     raw |-> NoAwsRaw, time |-> 0, threw |-> FALSE, response |-> NoResponse,
     settled |-> NoSettlement]

FacadeInit ==
    /\ clock = 1
    /\ invocation = [c \in FacadeCalls |-> NoInvocation]
    /\ functionMetrics = [fn \in FnNames |-> [completed |-> 0, errors |-> 0, samples |-> 0]]
    /\ last = NoLast

\* Date.now() advances.
Tick ==
    /\ clock < MaxTime
    /\ clock' = clock + 1
    /\ UNCHANGED <<invocation, functionMetrics, last>>
    /\ UNCHANGED notFacade

\* A proxy made by cloudifyWithResponse(fn) is invoked: CallId = uuidv4(),
\* start = Date.now(), and impl.callFunction(state, callRequest) is called.
\* Mutant: the CallId is not fresh, every call carries the same one.
responsifedFuncSameCallId(c, fn) ==
    /\ invocation[c].status = "idle"
    /\ \A b \in FacadeCalls : b < c => invocation[b].status # "idle"
    /\ invocation' = [invocation EXCEPT ![c] =
           [status |-> "inflight", backendCalls |-> 1,
            name |-> fn, CallId |-> 1, start |-> clock]]

\* The proxy's first steps: CallId = uuidv4(), start = Date.now(), and the
\* callRequest made of them.  A proxy made by cloudify(fn) makes a
\* cloudifyWithResponse proxy and calls it, so its invocation is this one too.
responsifedFunc(c, fn) ==
    /\ invocation[c].status = "idle"
    /\ \A b \in FacadeCalls : b < c => invocation[b].status # "idle"
    /\ invocation' = [invocation EXCEPT ![c] =
           [status |-> "inflight", backendCalls |-> 1,
            name |-> fn, CallId |-> c, start |-> clock]]

Invoke(c, fn) ==
    /\ responsifedFunc(c, fn)
    /\ UNCHANGED <<clock, functionMetrics, last>>
    /\ UNCHANGED notFacade

\* The error Return that the catch handler builds from a rejection.
synthesized(value, callRequest, now) ==
    Return("error", value, callRequest.CallId, Some(callRequest.start), Some(now), Undefined)

\* The TypeError of reading a property of undefined.
TypeErrorThrown ==
    [name |-> "TypeError", message |-> "Cannot read property 'message' of undefined",
     stack |-> GeneratedStack]

\* cloudify(fn)'s proxy: response = await cfn(...args) (the await throws what
\* cfn rejects with); if (response.error) throw response.error;
\* return response.value.
cloudify(threw, response) ==
    IF threw THEN Settlement("rejected", JsUndefined, {TypeErrorThrown})
    ELSE IF response.error # {} THEN Settlement("rejected", JsUndefined, response.error)
    ELSE Settlement("resolved", response.value, {})

\* The invocation once its proxy has returned: the promise is settled and the
\* callRequest is gone.
Returned(inv, threw) ==
    [NoInvocation EXCEPT !.status = IF threw THEN "rejected" ELSE "resolved",
                         !.backendCalls = inv.backendCalls]

\* return processResponse(rv, callRequest, this.functionMetrics), at wall time
\* now: the proxy's promise resolves with the Response, or rejects when
\* processResponse throws; last.settled is how the promise of the cloudify
\* proxy settles when the invocation was made through one.
Complete(c, via, returned, now) ==
    LET r == processResponse(returned, invocation[c], functionMetrics, now)
        settled == cloudify(r.threw, r.rv)
    IN  /\ invocation' = [invocation EXCEPT ![c] = Returned(@, r.threw)]
        /\ functionMetrics' = r.metrics
        /\ last' = [via |-> via, call |-> c, callRequest |-> invocation[c],
                    returned |-> returned, raw |-> NoAwsRaw, time |-> now,
                    threw |-> r.threw, response |-> r.rv, settled |-> settled]
        /\ clock' = now

\* callFunction resolves with a Return.
BackendResolves(c, returned) ==
    /\ invocation[c].status = "inflight"
    /\ Complete(c, "resolve", returned, clock)
    /\ UNCHANGED notFacade

\* callFunction rejects with value: the catch handler builds the error Return
\* at Date.now(), and processResponse runs in a later microtask, by when the
\* clock may have advanced.
BackendRejects(c, value, later) ==
    /\ invocation[c].status = "inflight"
    /\ later \in {clock, clock + 1}
    /\ Complete(c, "reject", synthesized(value, invocation[c], clock), later)
    /\ UNCHANGED notFacade

\* ------------------------------------- aws-cloudify: cloudifyWithResponse
AwsPayloads ==
    {[text |-> "payload", parsed |-> Return(type, value, 0, Absent, Absent, Undefined)] :
        type \in {"value"}, value \in Values}
    \cup
    {[text |-> "payload", parsed |-> Return(type, value, 0, Absent, Absent, Undefined)] :
        type \in {"error"}, value \in RemoteErrors}

AwsRawResponses ==
    {AwsRaw(f, pl) : f \in BOOLEAN, pl \in {{}} \cup {{x} : x \in AwsPayloads}}

\* if (returned && returned.type === "error") { error = new Error(...); ... }
awsRebuildError(errValue) ==
    [NewError(errValue.message) EXCEPT !.name = errValue.name, !.stack = errValue.stack]

\* The Response the AWS cloudifyWithResponse builds from lambda.invoke's
\* rawResponse: { value, error, rawResponse }.
awsResponse(raw) ==
    LET functionError == IF raw.FunctionError
                         THEN {NewError(IF raw.Payload = {} THEN Undefined
                                        ELSE Val(raw.Payload).text)}
                         ELSE {}
        \* returned = !error && rawResponse.Payload && JSON.parse(rawResponse.Payload)
        parsed == functionError = {} /\ raw.Payload # {}
        returned == IF parsed THEN Val(raw.Payload).parsed ELSE NoReturn
        error == IF parsed /\ returned.type = "error"
                 THEN {awsRebuildError(returned.value)}
                 ELSE functionError
        \* value = !error && returned && returned.value
        value == IF error # {} THEN JsFalse
                 ELSE IF parsed THEN returned.value
                 ELSE JsUndefined
    IN  [value |-> value, error |-> error, rawResponse |-> "raw",
         startLatency |-> Absent, executionLatency |-> Absent, returnLatency |-> Absent]

\* A proxy made by the AWS cloudifyWithResponse: lambda.invoke has answered.
AwsResponds(c, raw) ==
    /\ invocation[c].status = "inflight"
    /\ invocation' = [invocation EXCEPT ![c] = Returned(@, FALSE)]
    /\ last' = [via |-> "aws", call |-> c, callRequest |-> invocation[c],
                returned |-> IF raw.FunctionError \/ raw.Payload = {} THEN NoReturn
                             ELSE Val(raw.Payload).parsed,
                raw |-> raw, time |-> clock, threw |-> FALSE, response |-> awsResponse(raw),
                settled |-> NoSettlement]
    /\ UNCHANGED <<clock, functionMetrics>>
    /\ UNCHANGED notFacade

\* ------------------------------- cloudifyAll and cloudifyAllWithResponse
\* A module is an object: its own keys, each with an entry.  An entry is a
\* function (typeof "function", with its name) or another value.
Keys == {"hello", "add", "PI"}

Fn(name) == [type |-> "function", fn |-> name]

Entries == {Fn("hello"), Fn("add"), [type |-> "number", fn |-> ""],
            [type |-> "object", fn |-> ""]}

Modules == UNION {[S -> Entries] : S \in SUBSET Keys}

EmptyObject == [k \in {} |-> Fn("")]

\* The proxy that this.cloudify(fn) or this.cloudifyWithResponse(fn) returns.
Proxy(wrapper, entry) == [proxy |-> wrapper, fn |-> entry.fn]

\* Mutant: the typeof test is missing.
wrapEntryAlways(rv, module, name, wrapper) ==
    (name :> Proxy(wrapper, module[name])) @@ rv

\* if (typeof module[name] === "function") { rv[name] = wrapper(module[name]); }
wrapEntry(rv, module, name, wrapper) ==
    IF module[name].type = "function"
    THEN (name :> Proxy(wrapper, module[name])) @@ rv
    ELSE rv

\* for (const name of Object.keys(module)) { ... }, over the keys left.
RECURSIVE forEachKey(_, _, _, _)
forEachKey(names, module, wrapper, rv) ==
    IF names = {} THEN rv
    ELSE LET name == CHOOSE n \in names : TRUE
         IN  forEachKey(names \ {name}, module, wrapper,
                        wrapEntry(rv, module, name, wrapper))

cloudifyAll(module) == forEachKey(DOMAIN module, module, "cloudify", EmptyObject)

cloudifyAllWithResponse(module) ==
    forEachKey(DOMAIN module, module, "cloudifyWithResponse", EmptyObject)

NoWrap == [op |-> "none", module |-> EmptyObject, rv |-> EmptyObject]

WrapInit == wrapped = NoWrap

CloudifyAll(module) ==
    /\ wrapped' = [op |-> "cloudifyAll", module |-> module, rv |-> cloudifyAll(module)]
    /\ UNCHANGED notWrap

CloudifyAllWithResponse(module) ==
    /\ wrapped' = [op |-> "cloudifyAllWithResponse", module |-> module,
                   rv |-> cloudifyAllWithResponse(module)]
    /\ UNCHANGED notWrap

WrapNext ==
    \/ \E module \in Modules : CloudifyAll(module)
    \/ \E module \in Modules : CloudifyAllWithResponse(module)

\* ------------------------------------------------ queue-relayed transport
\* A backend whose callFunction publishes the Call on a request channel and
\* registers the call in a correlation table under its callId; the Returns
\* come back on a response channel shared with other instances, in any order.
EmptyTable == [id \in {} |-> 0]

\* table[id] := c
Register(tbl, id, c) == [i \in DOMAIN tbl \cup {id} |-> IF i = id THEN c ELSE tbl[i]]

\* delete table[id]
Unregister(tbl, id) == [i \in DOMAIN tbl \ {id} |-> tbl[i]]

\* No Return has settled the invocation yet.
NotSettled == 0 - 1

\* The instance a foreign Return belongs to, and the callId it carries.
ForeignOrigin == 0

ForeignCallId == MaxFacadeCalls + 1

\* What the remote side may answer a Call with.
QueueOutcomes ==
    {[type |-> "value", value |-> Prim("hello")],
     [type |-> "value", value |-> JsUndefined],
     [type |-> "error",
      value |-> Obj("ValidationError", "bad input", "ValidationError: bad input at f")]}

QueueInit ==
    /\ requests = {}
    /\ channel = {}
    /\ table = EmptyTable
    /\ settledBy = [c \in FacadeCalls |-> NotSettled]
    /\ discarded = {}

\* A proxy is invoked on a queue-relayed backend: callFunction registers the
\* call under callRequest.CallId and publishes the Call.
QueueInvoke(c, fn) ==
    /\ responsifedFunc(c, fn)
    /\ table' = Register(table, invocation'[c].CallId, c)
    /\ requests' = requests \cup {[CallId |-> invocation'[c].CallId, origin |-> c]}
    /\ UNCHANGED <<clock, functionMetrics, last, channel, settledBy, discarded>>
    /\ UNCHANGED notQueue

\* The remote side executes a published Call and sends the Return, which
\* carries the Call's callId, on the response channel.
RemoteExecutes(req, out) ==
    /\ req \in requests
    /\ requests' = requests \ {req}
    /\ channel' = channel \cup
          {[origin |-> req.origin,
            returned |-> Return(out.type, out.value, req.CallId,
                                Some(clock), Some(clock), "raw")]}
    /\ UNCHANGED <<table, settledBy, discarded>>
    /\ UNCHANGED facadeVars
    /\ UNCHANGED notQueue

\* Another instance's Return appears on the shared channel.
ForeignReturn ==
    /\ \A e \in channel : e.origin # ForeignOrigin
    /\ channel' = channel \cup
          {[origin |-> ForeignOrigin,
            returned |-> Return("value", Prim("hello"), ForeignCallId,
                                Some(clock), Some(clock), "raw")]}
    /\ UNCHANGED <<requests, table, settledBy, discarded>>
    /\ UNCHANGED facadeVars
    /\ UNCHANGED notQueue

\* Mutant: a Return with no entry settles an outstanding call, if there is one.
correlateAnyPending(e) ==
    IF e.returned.CallId \in DOMAIN table \/ DOMAIN table # {}
    THEN LET id == IF e.returned.CallId \in DOMAIN table THEN e.returned.CallId
                   ELSE CHOOSE i \in DOMAIN table : TRUE
             c == table[id]
         IN  /\ invocation[c].status = "inflight"
             /\ Complete(c, "queue", e.returned, clock)
             /\ table' = Unregister(table, id)
             /\ settledBy' = [settledBy EXCEPT ![c] = e.origin]
             /\ UNCHANGED discarded
    ELSE /\ discarded' = discarded \cup {e.origin}
         /\ UNCHANGED <<table, settledBy, clock, invocation, functionMetrics, last>>

\* Response correlation: the entry of the Return's callId, if there is one, is
\* looked up, removed and settled with it (callFunction's promise resolves and
\* the proxy goes on to processResponse); a Return with no entry is discarded.
correlate(e) ==
    IF e.returned.CallId \in DOMAIN table
    THEN LET c == table[e.returned.CallId]
         IN  /\ invocation[c].status = "inflight"
             /\ Complete(c, "queue", e.returned, clock)
             /\ table' = Unregister(table, e.returned.CallId)
             /\ settledBy' = [settledBy EXCEPT ![c] = e.origin]
             /\ UNCHANGED discarded
    ELSE /\ discarded' = discarded \cup {e.origin}
         /\ UNCHANGED <<table, settledBy, clock, invocation, functionMetrics, last>>

\* The channel delivers a Return.  Delivery is at least once: the Return may
\* stay on the channel and be delivered again.
Deliver(e, redelivered) ==
    /\ e \in channel
    /\ channel' = IF redelivered THEN channel ELSE channel \ {e}
    /\ correlate(e)
    /\ UNCHANGED requests
    /\ UNCHANGED notQueue

\* ------------------------------------------------------ garbage collector
\* Instances of the framework on one cloud account, in the order they start,
\* and the kinds of resource each of them creates.  As in the tests, the first
\* instance is the one that makes a call and starts without a collector; the
\* later ones start with gc enabled.
Instances == <<"A", "B", "C">>

InstanceNames == Range(Instances)

Kinds == <<"function", "topic">>

ResourcesOf(o) == {<<o, Kinds[k]>> : k \in 1..Len(Kinds)}

\* The options an instance starts with: gc, gcWorker (the default worker
\* deletes, a recorder only records) and retentionInDays.
Retentions == {0, 1}

NoGc == [gc |-> FALSE, gcWorker |-> "none", retentionInDays |-> 0]

GcOptions ==
    {NoGc} \cup {[gc |-> TRUE, gcWorker |-> w, retentionInDays |-> r] :
                    w \in {"delete", "record"}, r \in Retentions}

NotStarted ==
    [status |-> "none", createdAt |-> 0, called |-> FALSE, options |-> NoGc]

\* A reclamation pass: the orphans of its partition, for how many of them the
\* worker has been invoked, the kinds of the present orphan that the worker
\* has still to delete, and whether a delete found the resource already absent.
NoPass ==
    [phase |-> "none", orphans |-> <<>>, invoked |-> 0, todo |-> <<>>,
     foundAbsent |-> FALSE]

GcInit ==
    /\ gcTime = 0
    /\ inst = [i \in InstanceNames |-> NotStarted]
    /\ resources = {}
    /\ pass = [i \in InstanceNames |-> NoPass]

\* Time passes.
GcTick ==
    /\ gcTime < MaxGcTime
    /\ gcTime' = gcTime + 1
    /\ UNCHANGED <<inst, resources, pass>>
    /\ UNCHANGED notGc

\* faast(provider, functions, module, options): the instance creates its
\* resources (which takes time) and, with gc enabled, starts a pass.
Faast(n, options) ==
    /\ inst[Instances[n]].status = "none"
    /\ \A m \in 1..(n - 1) : inst[Instances[m]].status # "none"
    /\ options.gc <=> n > 1
    /\ gcTime < MaxGcTime
    /\ inst' = [inst EXCEPT ![Instances[n]] =
           [status |-> "running", createdAt |-> gcTime, called |-> FALSE,
            options |-> options]]
    /\ resources' = resources \cup ResourcesOf(Instances[n])
    /\ gcTime' = gcTime + 1
    /\ pass' = [pass EXCEPT ![Instances[n]].phase =
           IF options.gc THEN "discover" ELSE "none"]
    /\ UNCHANGED notGc

\* func.functions.hello(...)
GcCall(i) ==
    /\ inst[i].status = "running"
    /\ ~inst[i].called
    /\ inst' = [inst EXCEPT ![i].called = TRUE]
    /\ UNCHANGED <<gcTime, resources, pass>>
    /\ UNCHANGED notGc

\* Mutant: the teardown deletes the resources whatever deleteResources says.
cleanupAlwaysDeletes(i, deleteResources) ==
    /\ inst' = [inst EXCEPT ![i].status = IF deleteResources THEN "deleted" ELSE "retained"]
    /\ resources' = resources \ ResourcesOf(i)

\* func.cleanup({deleteResources}): delete the instance's resources, or leave
\* them in place.
cleanup(i, deleteResources) ==
    /\ inst' = [inst EXCEPT ![i].status = IF deleteResources THEN "deleted" ELSE "retained"]
    /\ resources' = IF deleteResources THEN resources \ ResourcesOf(i) ELSE resources

\* cleanup waits for the instance's own pass.
GcCleanup(i, deleteResources) ==
    /\ inst[i].status \in {"running", "retained"}
    /\ pass[i].phase \in {"none", "done"}
    /\ cleanup(i, deleteResources)
    /\ UNCHANGED <<gcTime, pass>>
    /\ UNCHANGED notGc

\* Discover: the owners of the records visible now; Age is a record's age.
Discovered == {r[1] : r \in resources}

Age(o) == gcTime - inst[o].createdAt

\* Mutant: the collector does not spare its own record.
PartitionAll(i, seen) ==
    [own |-> {},
     young |-> {o \in seen : ~(Age(o) > inst[i].options.retentionInDays)},
     orphans |-> {o \in seen : Age(o) > inst[i].options.retentionInDays}]

\* Partition: (a) the current instance's records, (b) other instances' records
\* younger than the retention threshold, (c) the orphans.
Partition(i, seen) ==
    [own |-> {o \in seen : o = i},
     young |-> {o \in seen : o # i /\ ~(Age(o) > inst[i].options.retentionInDays)},
     orphans |-> {o \in seen : o # i /\ Age(o) > inst[i].options.retentionInDays}]

\* The orphans, in the order the pass takes them.
InOrder(S) == SelectSeq(Instances, LAMBDA o : o \in S)

Discover(i) ==
    /\ pass[i].phase = "discover"
    /\ pass' = [pass EXCEPT ![i].phase = "reclaim",
                            ![i].orphans = InOrder(Partition(i, Discovered).orphans)]
    /\ UNCHANGED <<gcTime, inst, resources>>
    /\ UNCHANGED notGc

\* Reclaim: the worker is invoked with the resource descriptors of the next
\* orphan; the default worker goes on to delete every kind of resource of the
\* record, a recorder returns at once.
InvokeWorker(i) ==
    /\ pass[i].phase = "reclaim"
    /\ pass[i].todo = <<>>
    /\ pass[i].invoked < Len(pass[i].orphans)
    /\ pass' = [pass EXCEPT
           ![i].invoked = @ + 1,
           ![i].todo = IF inst[i].options.gcWorker = "delete" THEN Kinds ELSE <<>>]
    /\ UNCHANGED <<gcTime, inst, resources>>
    /\ UNCHANGED notGc

\* Mutant: a delete that finds the resource absent fails the pass.
deleteResourceStrict(i, r) ==
    /\ resources' = resources \ {r}
    /\ pass' = [pass EXCEPT ![i].todo = Tail(@),
                            ![i].phase = IF r \in resources THEN @ ELSE "raised",
                            ![i].foundAbsent = @ \/ r \notin resources]

\* deleteResource(descriptor): idempotent, an absent resource is a success.
deleteResource(i, r) ==
    /\ resources' = resources \ {r}
    /\ pass' = [pass EXCEPT ![i].todo = Tail(@),
                            ![i].foundAbsent = @ \/ r \notin resources]

\* The worker deletes the next kind of resource of the orphan it was given.
Delete(i) ==
    /\ pass[i].phase = "reclaim"
    /\ pass[i].todo # <<>>
    /\ deleteResource(i, <<pass[i].orphans[pass[i].invoked], Head(pass[i].todo)>>)
    /\ UNCHANGED <<gcTime, inst>>
    /\ UNCHANGED notGc

\* The pass is over: the worker was invoked for every orphan and has returned.
PassDone(i) ==
    /\ pass[i].phase = "reclaim"
    /\ pass[i].invoked = Len(pass[i].orphans)
    /\ pass[i].todo = <<>>
    /\ pass' = [pass EXCEPT ![i].phase = "done"]
    /\ UNCHANGED <<gcTime, inst, resources>>
    /\ UNCHANGED notGc

\* ------------------------------------------------------------ AWS cleanup
\* A string of the state is used when it is truthy: neither undefined nor "".
\* Both are "" here.
NonEmpty(str) == str # ""

\* The policies that may be attached to the role.
Policies == {"policy-a", "policy-b"}

\* The AWSVariables cleanup may be called with (Partial<AWSVariables>).
AWSVariables ==
    [FunctionName : {"", "cloudify-fn"},
     RoleName : {"", "cloudify-role"},
     roleNeedsCleanup : BOOLEAN,
     logGroupName : {"", "/aws/lambda/cloudify-fn"},
     noCreateLogGroupPolicy : {"", "no-create-log-group"}]

NoState ==
    [FunctionName |-> "", RoleName |-> "", roleNeedsCleanup |-> FALSE,
     logGroupName |-> "", noCreateLogGroupPolicy |-> ""]

\* What exists in the account when cleanup is called: anything may already be gone.
Accounts ==
    [function : BOOLEAN, attached : SUBSET Policies, rolePolicy : BOOLEAN,
     role : BOOLEAN, logGroup : BOOLEAN]

NoAccount ==
    [function |-> FALSE, attached |-> {}, rolePolicy |-> FALSE,
     role |-> FALSE, logGroup |-> FALSE]

\* A request is the operation called and the policy it names, if any.
step(operation) == <<operation, "">>

\* The request that detaches one policy.
detach(policy) == <<"detachRolePolicy", policy>>

CleanupInit ==
    /\ state = NoState
    /\ account = NoAccount
    /\ AttachedPolicies = {}
    /\ detaching = {}
    /\ attempted = {}
    /\ failed = {}
    /\ cleanupPc = "idle"

\* A variant of carefully without the catch: the rejection of the request
\* reaches the caller.
carefullyNoCatch(ok) == [raised |-> ~ok, logged |-> FALSE]

\* carefully(request): the request's promise with a catch that logs the error,
\* so that the promise the caller awaits is never rejected.
carefully(ok) == [raised |-> FALSE, logged |-> ~ok]

\* What cleanup does after the function: the role, if there is one to clean up,
\* then the log group, then it returns.
AfterRole(s) == IF NonEmpty(s.logGroupName) THEN "deleteLogGroup" ELSE "resolved"

AfterFunction(s) ==
    IF NonEmpty(s.RoleName) /\ s.roleNeedsCleanup
    THEN "listAttachedRolePolicies"
    ELSE AfterRole(s)

\* What deleteRole does after the detachments.
AfterDetach(s) ==
    IF NonEmpty(s.noCreateLogGroupPolicy) THEN "deleteRolePolicy" ELSE "deleteRole"

\* cleanup(state) is called: it runs up to its first await.
AwsCleanup(s, a) ==
    /\ cleanupPc = "idle"
    /\ state' = s
    /\ account' = a
    /\ cleanupPc' = IF NonEmpty(s.FunctionName) THEN "deleteFunction" ELSE AfterFunction(s)
    /\ UNCHANGED <<AttachedPolicies, detaching, attempted, failed>>
    /\ UNCHANGED notCleanup

\* An awaited request, issued through carefully, settles: it succeeded or failed.
\* A rejection that reaches cleanup ends it.
Request(request, ok, next) ==
    LET r == carefully(ok)
    IN  /\ attempted' = attempted \cup {request}
        /\ failed' = IF ok THEN failed ELSE failed \cup {request}
        /\ cleanupPc' = IF r.raised THEN "rejected" ELSE next

\* await carefully(lambda.deleteFunction({ FunctionName }))
DeleteFunction(ok) ==
    /\ cleanupPc = "deleteFunction"
    /\ Request(step("deleteFunction"), ok, AfterFunction(state))
    /\ account' = IF ok THEN [account EXCEPT !.function = FALSE] ELSE account
    /\ UNCHANGED <<state, AttachedPolicies, detaching>>
    /\ UNCHANGED notCleanup

\* deleteRole: the listing settles; when it failed there is no policy to detach.
\* The detach requests are all issued by the map, before anything is awaited,
\* and Promise.all of no promise is resolved.
ListAttachedRolePolicies(ok) ==
    LET r == carefully(ok)
        listed == IF ok THEN account.attached ELSE {}
    IN  /\ cleanupPc = "listAttachedRolePolicies"
        /\ AttachedPolicies' = listed
        /\ detaching' = IF r.raised THEN {} ELSE listed
        /\ attempted' = attempted \cup {step("listAttachedRolePolicies")}
                          \cup (IF r.raised THEN {} ELSE {detach(p) : p \in listed})
        /\ failed' = IF ok THEN failed ELSE failed \cup {step("listAttachedRolePolicies")}
        /\ cleanupPc' = IF r.raised THEN "rejected"
                        ELSE IF listed = {} THEN AfterDetach(state)
                        ELSE "detachRolePolicy"
        /\ UNCHANGED <<state, account>>
        /\ UNCHANGED notCleanup

\* One detach request settles.  Promise.all is resolved when the last one is,
\* and rejected with the first rejection, which its catch logs: deleteRole goes
\* on either way.
DetachRolePolicy(policy, ok) ==
    LET r == carefully(ok)
    IN  /\ policy \in detaching
        /\ detaching' = detaching \ {policy}
        /\ account' = IF ok THEN [account EXCEPT !.attached = @ \ {policy}] ELSE account
        /\ failed' = IF ok THEN failed ELSE failed \cup {detach(policy)}
        /\ cleanupPc' = IF cleanupPc = "detachRolePolicy" /\ (r.raised \/ detaching' = {})
                        THEN AfterDetach(state)
                        ELSE cleanupPc
        /\ UNCHANGED <<state, AttachedPolicies, attempted>>
        /\ UNCHANGED notCleanup

\* await carefully(iam.deleteRolePolicy({ RoleName, PolicyName }))
DeleteRolePolicy(ok) ==
    /\ cleanupPc = "deleteRolePolicy"
    /\ Request(step("deleteRolePolicy"), ok, "deleteRole")
    /\ account' = IF ok THEN [account EXCEPT !.rolePolicy = FALSE] ELSE account
    /\ UNCHANGED <<state, AttachedPolicies, detaching>>
    /\ UNCHANGED notCleanup

\* await carefully(iam.deleteRole({ RoleName })), the last step of deleteRole.
DeleteRole(ok) ==
    /\ cleanupPc = "deleteRole"
    /\ Request(step("deleteRole"), ok, AfterRole(state))
    /\ account' = IF ok THEN [account EXCEPT !.role = FALSE] ELSE account
    /\ UNCHANGED <<state, AttachedPolicies, detaching>>
    /\ UNCHANGED notCleanup

\* await carefully(cloudwatch.deleteLogGroup({ logGroupName })), then cleanup returns.
DeleteLogGroup(ok) ==
    /\ cleanupPc = "deleteLogGroup"
    /\ Request(step("deleteLogGroup"), ok, "resolved")
    /\ account' = IF ok THEN [account EXCEPT !.logGroup = FALSE] ELSE account
    /\ UNCHANGED <<state, AttachedPolicies, detaching>>
    /\ UNCHANGED notCleanup

Init == ProcInit /\ FacadeInit /\ WrapInit /\ QueueInit /\ GcInit /\ CleanupInit

CleanupNext ==
    \/ \E s \in AWSVariables, a \in Accounts : AwsCleanup(s, a)
    \/ \E ok \in BOOLEAN : DeleteFunction(ok)
    \/ \E ok \in BOOLEAN : ListAttachedRolePolicies(ok)
    \/ \E policy \in Policies, ok \in BOOLEAN : DetachRolePolicy(policy, ok)
    \/ \E ok \in BOOLEAN : DeleteRolePolicy(ok)
    \/ \E ok \in BOOLEAN : DeleteRole(ok)
    \/ \E ok \in BOOLEAN : DeleteLogGroup(ok)

CleanupSpec == Init /\ [][CleanupNext]_vars

GcNext ==
    \/ GcTick
    \/ \E n \in 1..Len(Instances), options \in GcOptions : Faast(n, options)
    \/ GcCall(Instances[1])
    \/ \E i \in InstanceNames, deleteResources \in BOOLEAN : GcCleanup(i, deleteResources)
    \/ \E i \in InstanceNames : Discover(i)
    \/ \E i \in InstanceNames : InvokeWorker(i)
    \/ \E i \in InstanceNames : Delete(i)
    \/ \E i \in InstanceNames : PassDone(i)

GcSpec == Init /\ [][GcNext]_vars

QueueNext ==
    \/ Tick
    \/ \E c \in FacadeCalls, fn \in FnNames : QueueInvoke(c, fn)
    \/ \E req \in requests, out \in QueueOutcomes : RemoteExecutes(req, out)
    \/ ForeignReturn
    \/ \E e \in channel, redelivered \in BOOLEAN : Deliver(e, redelivered)

QueueSpec == Init /\ [][QueueNext]_vars

WrapSpec == Init /\ [][WrapNext]_vars

Next ==
    \/ CallFunction
    \/ \E n \in ConcurrencyValues : SetConcurrency(n)
    \/ \E c \in Calls : ChildMessage(c)
    \/ \E c \in Calls : ChildError(c)
    \/ \E c \in Calls, how \in ExitKinds : ChildExit(c, how)
    \/ \E s \in Stops, kind \in {"stop", "cleanup"} : Stop(s, kind)
    \/ \E s \in Stops : StopResolve(s)

Spec == Init /\ [][Next]_vars

FacadeNext ==
    \/ Tick
    \/ \E c \in FacadeCalls, fn \in FnNames : Invoke(c, fn)
    \/ \E c \in FacadeCalls : \E returned \in Returns(c) : BackendResolves(c, returned)
    \/ \E c \in FacadeCalls, value \in RejectValues, later \in Times :
          BackendRejects(c, value, later)
    \/ \E c \in FacadeCalls : \E raw \in AwsRawResponses : AwsResponds(c, raw)

FacadeSpec == Init /\ [][FacadeNext]_vars

\* The facade over a backend whose remote side may read a clock that stands at
\* the epoch: the timestamps of a Return are absent, 0, or a later reading.
OptEpochTimes == {Absent} \cup {Some(t) : t \in 0..MaxTime}

EpochReturns(CallId) ==
    {Return(type, value, CallId, a, e, "raw") :
        type \in {"value"}, value \in {Prim("hello")}, a \in OptEpochTimes, e \in OptEpochTimes}
    \cup
    {Return(type, value, CallId, a, e, "raw") :
        type \in {"error"}, value \in RemoteErrors, a \in OptEpochTimes, e \in OptEpochTimes}

EpochNext ==
    \/ Tick
    \/ \E c \in FacadeCalls, fn \in FnNames : Invoke(c, fn)
    \/ \E c \in FacadeCalls : \E returned \in EpochReturns(c) : BackendResolves(c, returned)

EpochSpec == Init /\ [][EpochNext]_vars

\* The process backend under the proviso of the liveness claims: the cap is at
\* least 1, and every started operation eventually settles: its child does not
\* exit with code 0 before it has sent its message or failed, and one of the
\* events that settle the operation's promise eventually happens.
ChildExitSettled(c, how) ==
    /\ how = "code0" => outcome[c] # "pending"
    /\ ChildExit(c, how)

ChildSettles(c) ==
    /\ c \in executing
    /\ \/ ChildMessage(c)
       \/ ChildError(c)
       \/ \E how \in {"code", "signal"} : ChildExit(c, how)

LiveNext ==
    \/ CallFunction
    \/ \E n \in ConcurrencyValues \ {0} : SetConcurrency(n)
    \/ \E c \in Calls : ChildMessage(c)
    \/ \E c \in Calls : ChildError(c)
    \/ \E c \in Calls, how \in ExitKinds : ChildExitSettled(c, how)
    \/ \E s \in Stops, kind \in {"stop", "cleanup"} : Stop(s, kind)
    \/ \E s \in Stops : StopResolve(s)

LiveSpec == Init /\ [][LiveNext]_vars /\ \A c \in Calls : WF_vars(ChildSettles(c))

\* ------------------------------------------------------------- the funnel
NumRunning == Cardinality(executing)

SettledOutcomes == {"value", "error", "cancelled"}

\* C1 - Funnel concurrency cap: no step starts operations beyond the cap: after
\* any step (push, settlement, setConcurrency, stop) the number of operations
\* started and not yet settled is at most the cap N, unless it was already
\* above N before the step (the cap was lowered) and the step did not raise
\* it.  Hence while the cap stays at N, at most N callFunction operations are
\* in flight in every state.
C1_ConcurrencyCap ==
    [][maxConcurrency'.bounded =>
          Cardinality(executing') <= Max(NumRunning, maxConcurrency'.n)]_vars

\* M > N: the cap is 2, two operations run and a third one waits.
C1_Witness ==
    /\ maxConcurrency = Cap(2)
    /\ NumRunning = 2
    /\ Len(pendingQueue) >= 1

\* C2 - Funnel FIFO admission: operations are started in push order (calls are
\* numbered in push order), and no operation is started while one pushed before
\* it is still queued, whatever the order of settlements and cap changes.
C2_FifoAdmission ==
    /\ \A i, j \in 1..Len(admitOrder) : i < j => admitOrder[i] < admitOrder[j]
    /\ \A a, b \in Calls :
          (a < b /\ b \in Range(admitOrder)) => a \notin Range(pendingQueue)

\* Call 3 was started by the settlement of call 2 while call 1 still runs.
C2_Witness ==
    /\ lastOp = Op("message", 2, 1)
    /\ admitOrder = <<1, 2, 3>>
    /\ outcome[1] = "pending"

\* C3 - setMaxConcurrency: a setConcurrency(n) step sets the cap to n and starts
\* the first min(max(n - running, 0), queued) queued operations, in queue order
\* (raising N to N+k with N running: min(k, q)); whether the cap is raised or
\* lowered, every running operation stays running and no outcome changes.
C3_SetConcurrency ==
    [][lastOp'.op = "setConcurrency" =>
          LET n == lastOp'.arg
              k == Min(Len(pendingQueue), Max(0, n - NumRunning))
          IN  /\ maxConcurrency' = Cap(n)
              /\ lastOp'.started = k
              /\ admitOrder' = admitOrder \o SubSeq(pendingQueue, 1, k)
              /\ pendingQueue' = SubSeq(pendingQueue, k + 1, Len(pendingQueue))
              /\ executing' = executing \cup Range(SubSeq(pendingQueue, 1, k))
              /\ outcome' = outcome
              /\ \A c \in executing : child'[c] = child[c]]_vars

\* The cap was raised to 2 with one operation running and two queued: one of
\* the two was started, the other still waits.
C3_Witness ==
    /\ lastOp = Op("setConcurrency", 2, 1)
    /\ NumRunning = 2
    /\ Len(pendingQueue) = 1

\* C4 - clearPending: right after stop() (which calls clearPending()) the queue
\* is empty, every operation that was queued is settled as cancelled and was
\* not started, and every running operation still runs with its outcome
\* unchanged; a cancelled operation is never started later either.
C4_ClearPending ==
    /\ [][lastOp'.op \in {"stop", "cleanup"} =>
             /\ pendingQueue' = <<>>
             /\ \A c \in Range(pendingQueue) :
                   outcome'[c] = "cancelled" /\ child'[c] = "none"
             /\ \A c \in executing :
                   c \in executing' /\ outcome'[c] = outcome[c] /\ child'[c] = child[c]]_vars
    /\ [](\A c \in Calls :
             outcome[c] = "cancelled" => (child[c] = "none" /\ c \notin Range(admitOrder)))

\* The first stop() cancelled a queued operation while another one runs.
C4_Witness ==
    /\ lastOp.op = "stop"
    /\ lastOp.arg = 1
    /\ \E c \in Calls : outcome[c] = "cancelled"
    /\ \E c \in executing : outcome[c] = "pending"

\* C5 - Funnel liveness (under LiveSpec: every started operation eventually
\* settles and the cap is at least 1): every operation pushed to the funnel
\* eventually has its outcome settled (its result, its failure, or cancelled),
\* under any interleaving of calls, setConcurrency and stop.
C5_Liveness ==
    \A c \in Calls : (outcome[c] = "pending") ~> (outcome[c] \in SettledOutcomes)

\* The three ways an outcome settles, in one run.
C5_Witness ==
    /\ outcome[1] = "error"
    /\ outcome[2] = "cancelled"
    /\ outcome[3] = "value"
\* ------------------------------------------------------------- the facade
\* The step completes invocation c of a CloudFunction proxy.
Completes(c) ==
    /\ invocation[c].status = "inflight"
    /\ invocation'[c].status # "inflight"
    /\ last'.via \in {"resolve", "reject"}

\* C6 - callWithResponse never throws: whatever callFunction does (resolves
\* with a value Return, with an error Return, or rejects with any value), the
\* promise of a cloudifyWithResponse proxy never rejects.
C6_NeverRejects ==
    \A c \in FacadeCalls : invocation[c].status # "rejected"

\* C7 - Metrics accounting: every step that ends an invocation of a wrapped
\* function adds exactly one to the "completed" counter of that function, adds
\* one to its "errors" counter if and only if the Return's outcome is an error
\* (a remote error or a synthesized transport failure), and leaves the
\* counters of every other function as they were.
MetricsAccounted(c) ==
    LET fn == invocation[c].name
    IN  /\ functionMetrics'[fn].completed = functionMetrics[fn].completed + 1
        /\ functionMetrics'[fn].errors =
              functionMetrics[fn].errors + (IF last'.returned.type = "error" THEN 1 ELSE 0)
        /\ \A other \in FnNames \ {fn} : functionMetrics'[other] = functionMetrics[other]

C7_MetricsAccounting ==
    [][\A c \in FacadeCalls : Completes(c) => MetricsAccounted(c)]_vars

\* What does hold: the accounting of every invocation that returns a Response.
MetricsAccountedOnResponse ==
    [][\A c \in FacadeCalls :
          (Completes(c) /\ invocation'[c].status = "resolved") => MetricsAccounted(c)]_vars

\* C8 - Latency derivation: a Response made from a Call submitted at s and a
\* Return with executionStart a and executionEnd e, processed at wall time t,
\* has startLatency = a - s, executionLatency = e - a and returnLatency = t - e,
\* as three separate fields.  (Timestamps are clock readings, 1 and later.)
C8_LatencyDerivation ==
    (/\ last.via \in {"resolve", "reject"}
     /\ ~last.threw
     /\ last.returned.executionStart # Absent
     /\ last.returned.executionEnd # Absent)
    => LET s == last.callRequest.start
           a == Val(last.returned.executionStart)
           e == Val(last.returned.executionEnd)
           t == last.time
       IN  /\ last.response.startLatency = Some(a - s)
           /\ last.response.executionLatency = Some(e - a)
           /\ last.response.returnLatency = Some(t - e)

\* s = 1, a = 2, e = 3, processed at t = 3: latencies 1, 1 and 0.
C8_Witness ==
    /\ last.via = "resolve"
    /\ last.callRequest.start = 1
    /\ last.returned.executionStart = Some(2)
    /\ last.returned.executionEnd = Some(3)
    /\ last.time = 3
    /\ last.response.startLatency = Some(1)
    /\ last.response.executionLatency = Some(1)
    /\ last.response.returnLatency = Some(0)

\* C9 - Transport failure is synthesized, not dropped: when callFunction
\* rejects, the error Return carries the call's CallId, executionStart = the
\* submission time and executionEnd = the time of the failure, the Response
\* has error set and latency fields with startLatency = 0, and the function's
\* "completed" and "errors" counters each grow by one.
Synthesized(c) ==
    /\ last'.returned.type = "error"
    /\ last'.returned.CallId = invocation[c].CallId
    /\ last'.returned.executionStart = Some(invocation[c].start)
    /\ last'.returned.executionEnd = Some(clock)

FailureAccounted(c) ==
    LET fn == invocation[c].name
    IN  /\ invocation'[c].status = "resolved"
        /\ last'.response.error # {}
        /\ last'.response.startLatency = Some(0)
        /\ last'.response.executionLatency # Absent
        /\ last'.response.returnLatency # Absent
        /\ functionMetrics'[fn].completed = functionMetrics[fn].completed + 1
        /\ functionMetrics'[fn].errors = functionMetrics[fn].errors + 1

C9_TransportFailureSynthesized ==
    [][\A c \in FacadeCalls :
          (Completes(c) /\ last'.via = "reject") => (Synthesized(c) /\ FailureAccounted(c))]_vars

\* What does hold: the error Return is always built as described, and the
\* failure is accounted whenever the rejection value is not undefined or null.
TransportFailureSynthesizedWhenDefined ==
    [][\A c \in FacadeCalls :
          (Completes(c) /\ last'.via = "reject") =>
              /\ Synthesized(c)
              /\ last'.returned.value.t # "undefined" => FailureAccounted(c)]_vars

\* C10 - Error reconstruction: for a Return of type "error" whose value has a
\* name, a message and a stack, the Response's error has exactly that name,
\* message and stack; for remote errors (processResponse and the AWS
\* cloudifyWithResponse) and for the Return synthesized from a rejection.
HasNameMessageStack(v) ==
    /\ v.t = "object"
    /\ v.name # Undefined
    /\ v.message # Undefined
    /\ v.stack # Undefined

C10_ErrorReconstruction ==
    (/\ last.via \in {"resolve", "reject", "aws"}
     /\ last.returned.type = "error"
     /\ HasNameMessageStack(last.returned.value))
    => /\ ~last.threw
       /\ last.response.error =
             {[name |-> last.returned.value.name,
               message |-> last.returned.value.message,
               stack |-> last.returned.value.stack]}

\* A remote ValidationError("bad input") is seen with that name and message.
C10_Witness ==
    /\ last.via = "resolve"
    /\ last.returned.type = "error"
    /\ \E e \in last.response.error :
          /\ e.name = "ValidationError"
          /\ e.message = "bad input"
          /\ e.stack = "ValidationError: bad input at f"

\* C11 - call(fn) unwrapping: the promise of a cloudify proxy rejects if and
\* only if the Response of the cloudifyWithResponse proxy it calls has an error,
\* and then with that error; otherwise it resolves with exactly the Response's
\* value (0, false, the empty string and undefined included); and the
\* invocation makes exactly one backend call and one metrics update.
UnwrapsResponse ==
    /\ (last'.settled.how = "rejected") <=> (last'.response.error # {})
    /\ last'.settled.how = "rejected" => last'.settled.error = last'.response.error
    /\ last'.settled.how # "rejected" =>
          /\ last'.settled.how = "resolved"
          /\ last'.settled.value = last'.response.value
          /\ last'.settled.value = last'.returned.value

OneCallOneUpdate(c) ==
    LET fn == invocation[c].name
    IN  /\ invocation[c].backendCalls = 1
        /\ invocation'[c].backendCalls = 1
        /\ functionMetrics'[fn].completed = functionMetrics[fn].completed + 1

C11_CallUnwrapping ==
    [][\A c \in FacadeCalls : Completes(c) => (UnwrapsResponse /\ OneCallOneUpdate(c))]_vars

\* What does hold: the unwrapping of every invocation whose cloudifyWithResponse
\* proxy returns a Response.
CallUnwrappingOnResponse ==
    [][\A c \in FacadeCalls :
          (Completes(c) /\ invocation'[c].status = "resolved") =>
              (UnwrapsResponse /\ OneCallOneUpdate(c))]_vars

\* ---------------------------------------------------------------- wrapAll
\* C12 - wrapAll / wrapAllWithResponse: the result of cloudifyAll(module) and of
\* cloudifyAllWithResponse(module) has exactly the keys of the module's
\* function-valued entries, each mapped to the proxy (of cloudify, of
\* cloudifyWithResponse) of that function, and no key of any other entry.
FunctionKeys(module) == {k \in DOMAIN module : module[k].type = "function"}

WrapperOf(op) == IF op = "cloudifyAll" THEN "cloudify" ELSE "cloudifyWithResponse"

C12_WrapAll ==
    wrapped.op # "none" =>
        /\ DOMAIN wrapped.rv = FunctionKeys(wrapped.module)
        /\ \A k \in DOMAIN wrapped.module :
              IF wrapped.module[k].type = "function"
              THEN wrapped.rv[k] = [proxy |-> WrapperOf(wrapped.op),
                                    fn |-> wrapped.module[k].fn]
              ELSE k \notin DOMAIN wrapped.rv

\* Two functions and one constant: proxies for the two, no key for the constant.
C12_Witness ==
    /\ wrapped.op = "cloudifyAll"
    /\ DOMAIN wrapped.module = {"hello", "add", "PI"}
    /\ wrapped.module["hello"] = Fn("hello")
    /\ wrapped.module["add"] = Fn("add")
    /\ wrapped.module["PI"].type = "number"
    /\ DOMAIN wrapped.rv = {"hello", "add"}
    /\ wrapped.rv["add"] = [proxy |-> "cloudify", fn |-> "add"]

\* ------------------------------------------------------- stop and cleanup
StopCalled == \E s \in Stops : stopState[s] # "idle"

\* The step calls stop() or cleanup() of the process backend.
StopStep == lastOp'.op \in {"stop", "cleanup"}

\* The process backend as the facade's contract has it: no call is passed to
\* the backend once stop() or cleanup() has been called.
HaltingNext ==
    \/ ~StopCalled /\ CallFunction
    \/ \E n \in ConcurrencyValues : SetConcurrency(n)
    \/ \E c \in Calls : ChildMessage(c)
    \/ \E c \in Calls : ChildError(c)
    \/ \E c \in Calls, how \in ExitKinds : ChildExit(c, how)
    \/ \E s \in Stops, kind \in {"stop", "cleanup"} : Stop(s, kind)
    \/ \E s \in Stops : StopResolve(s)

HaltingSpec == Init /\ [][HaltingNext]_vars

\* C13 - stop() and cleanup() are idempotent: a stop() or cleanup() called in
\* the state that the completion of an earlier one has left changes nothing of
\* the backend state: it cancels no operation, leaves the funnel's queue as it
\* is, sends no child a kill signal and has no child's exit to wait for (so it
\* resolves with the set of live children as the first call left it).
C13_StopIdempotent ==
    [][(lastOp.op = "stopResolve" /\ StopStep) =>
          /\ pendingQueue' = pendingQueue
          /\ outcome' = outcome
          /\ killed' = killed
          /\ awaiting'[lastOp'.arg] = {}
          /\ childProcesses' = childProcesses]_vars

\* C14 - stop() halts further calls: once stop() (or cleanup()) has been called,
\* no new child process is forked and the funnel starts no operation.
C14_StopHaltsCalls ==
    [][StopCalled =>
          /\ admitOrder' = admitOrder
          /\ \A c \in Calls : child[c] = "none" => child'[c] = "none"]_vars

\* A second stop() was called right after the first one completed.
SecondStopAfterFirst ==
    /\ lastOp.op \in {"stop", "cleanup"}
    /\ lastOp.arg = 2
    /\ stopState[1] = "resolved"
    /\ \E c \in Calls : child[c] = "exited"

\* ------------------------------------------------------------ correlation
\* C15 - Correlation by callId under out-of-order delivery: whatever the order
\* in which the Returns are delivered, an invocation is settled only with a
\* Return that carries its own callId, and that Return is the answer to its
\* own Call, never to another call's or another instance's.
C15_CorrelationByCallId ==
    /\ last.via = "queue" => last.returned.CallId = last.callRequest.CallId
    /\ \A c \in FacadeCalls : settledBy[c] \in {NotSettled, c}

\* Two calls are outstanding and the Return of the second arrives first.
C15_Witness ==
    /\ last.via = "queue"
    /\ last.call = 2
    /\ settledBy[2] = 2
    /\ invocation[1].status = "inflight"
    /\ \E e \in channel : e.origin = 1

\* ------------------------------------------------------ garbage collector
\* The owners for whose records the worker of i's pass has been invoked.
InvokedFor(i) == {pass[i].orphans[k] : k \in 1..pass[i].invoked}

HasRecord(o) == \E r \in resources : r[1] = o

\* C16 - GC partition: the orphans of a pass are exactly the records that, when
\* the pass discovers, are owned by another instance and older than the
\* retention threshold; the worker is invoked for these, one by one, and for
\* all of them before the pass is over; it is never invoked for the current
\* instance's own record nor for a record not older than the threshold.
C16_GcPartition ==
    [][\A i \in InstanceNames :
          /\ (pass[i].phase = "discover" /\ pass'[i].phase = "reclaim") =>
                Range(pass'[i].orphans) =
                    {o \in InstanceNames :
                        /\ HasRecord(o)
                        /\ o # i
                        /\ gcTime - inst[o].createdAt > inst[i].options.retentionInDays}
          /\ pass[i].phase = "reclaim" => pass'[i].orphans = pass[i].orphans
          /\ pass'[i].phase = "done" => pass'[i].invoked = Len(pass'[i].orphans)
          /\ i \notin InvokedFor(i)'
          /\ \A o \in InvokedFor(i)' :
                gcTime' - inst'[o].createdAt > inst'[i].options.retentionInDays]_vars

\* With a threshold of 1, B's worker was invoked for A's record and the pass is
\* over, while C's record, which is younger, is left in place.
C16_Witness ==
    /\ inst["B"].options.retentionInDays = 1
    /\ pass["B"].phase = "done"
    /\ InvokedFor("B") = {"A"}
    /\ HasRecord("C")
    /\ Age("C") <= 1

\* Instance b is the only one whose collector deletes.
OnlyDeleter(b) ==
    \A c \in InstanceNames \ {b} : inst[c].options.gcWorker # "delete"

CleanedUp(b) == inst[b].status \in {"retained", "deleted"}

C18_GcIdempotent ==
    \A i \in InstanceNames :
        /\ pass[i].phase # "raised"
        /\ (pass[i].phase = "done" /\ inst[i].options.gcWorker = "delete") =>
              \A o \in Range(pass[i].orphans) : ResourcesOf(o) \cap resources = {}

\* The passes of B and C reclaimed A together: each found a resource that the
\* other had deleted, and both are over.
C18_Witness ==
    /\ pass["B"].phase = "done"
    /\ pass["C"].phase = "done"
    /\ "A" \in InvokedFor("B") \cap InvokedFor("C")
    /\ pass["B"].foundAbsent
    /\ pass["C"].foundAbsent
    /\ ResourcesOf("A") \cap resources = {}

\* ---------------------------------------------------------------------- C19
\* The delete requests cleanup has to make for the state it was given: the
\* function, the role with its inline policy and every policy the listing
\* returned, and the log group, each under the condition the code puts on it.
DeleteSteps ==
    (IF NonEmpty(state.FunctionName) THEN {step("deleteFunction")} ELSE {})
    \cup (IF NonEmpty(state.RoleName) /\ state.roleNeedsCleanup
          THEN {step("deleteRole")} \cup {detach(p) : p \in AttachedPolicies}
               \cup (IF NonEmpty(state.noCreateLogGroupPolicy)
                     THEN {step("deleteRolePolicy")} ELSE {})
          ELSE {})
    \cup (IF NonEmpty(state.logGroupName) THEN {step("deleteLogGroup")} ELSE {})

Phase(q, run, out, c) ==
    IF c \in Range(q) THEN "queued"
    ELSE IF c \in run THEN "running"
    ELSE IF out[c] \in SettledOutcomes THEN "settled"
    ELSE "none"

\* The transitions of a task.  A push that finds a free slot queues the task
\* and starts it in the same step; only a cancellation settles a queued task.
Lifecycle ==
    {<<"none", "queued">>, <<"none", "running">>, <<"queued", "running">>,
     <<"running", "settled">>, <<"queued", "settled">>}

\* How many times the operation of call c was started.
Starts(order, c) == Cardinality({i \in 1..Len(order) : order[i] = c})

\* C20 - FunnelTask lifecycle: a task is at one place at a time (queued once,
\* or running, never both), every step leaves it where it is or moves it
\* forward along queued, running, settled, so that no transition happens
\* twice and a settled task is never queued, admitted or started again; its
\* operation is started when it becomes running and at no other time, hence
\* at most once; a task that settles without having run was cancelled.
C20_TaskLifecycle ==
    [][\A c \in Calls :
          LET before == Phase(pendingQueue, executing, outcome, c)
              after == Phase(pendingQueue', executing', outcome', c)
          IN  /\ Starts(pendingQueue', c) <= 1
              /\ ~(c \in Range(pendingQueue') /\ c \in executing')
              /\ after = before \/ <<before, after>> \in Lifecycle
              /\ Starts(admitOrder', c) - Starts(admitOrder, c)
                    = IF after = "running" /\ before # "running" THEN 1 ELSE 0
              /\ Starts(admitOrder', c) <= 1
              /\ (before = "queued" /\ after = "settled") => outcome'[c] = "cancelled"
              /\ (before = "running" /\ after = "settled") => outcome'[c] \in {"value", "error"}]_vars

\* A task that ran has settled, and its settlement let the funnel start a task
\* that was waiting in the queue, which is running now.
C20_Witness ==
    /\ lastOp.op \in {"message", "error", "exit"}
    /\ lastOp.started = 1
    /\ outcome[lastOp.arg] \in {"value", "error"}
    /\ lastOp.arg \notin executing
    /\ admitOrder # <<>>
    /\ admitOrder[Len(admitOrder)] \in executing
    /\ admitOrder[Len(admitOrder)] # lastOp.arg
    /\ \E c \in Calls : outcome[c] = "cancelled"

\* ---------------------------------------------------------------------- C21
\* The invocation c completes in this step with a Response.
CompletesWithResponse(c) == Completes(c) /\ ~last'.threw

HasLatencyFields(response) ==
    /\ response.startLatency # Absent
    /\ response.executionLatency # Absent
    /\ response.returnLatency # Absent

HasNoLatencyField(response) ==
    /\ response.startLatency = Absent
    /\ response.executionLatency = Absent
    /\ response.returnLatency = Absent

\* C21 - Latencies are present exactly when both timestamps are: when an
\* invocation completes with a Response, the Response has the three latency
\* fields and the function's latency statistics get one more sample if the
\* Return carries both executionStart and executionEnd, whatever their values
\* (0 included); otherwise the Response has none of the three fields and the
\* latency statistics are as before.  The completed counter grows either way.
C21_LatencyPresence ==
    [][\A c \in FacadeCalls : CompletesWithResponse(c) =>
          LET fn == invocation[c].name
              both == /\ last'.returned.executionStart # Absent
                      /\ last'.returned.executionEnd # Absent
          IN  /\ functionMetrics'[fn].completed = functionMetrics[fn].completed + 1
              /\ both => /\ HasLatencyFields(last'.response)
                         /\ functionMetrics'[fn].samples = functionMetrics[fn].samples + 1
              /\ ~both => /\ HasNoLatencyField(last'.response)
                          /\ functionMetrics'[fn].samples = functionMetrics[fn].samples]_vars

\* A Return with executionStart 0 and an executionEnd has been processed.
EpochReturnProcessed ==
    /\ last.via = "resolve"
    /\ last.returned.executionStart = Some(0)
    /\ last.returned.executionEnd # Absent
    /\ last.returned.executionEnd # Some(0)

\* ---------------------------------------------------------------------- C22
\* The invocations settled so far.
SettledInvocations == {c \in FacadeCalls : invocation[c].status \in {"resolved", "rejected"}}

\* C22 - Unmatched Returns are discarded: a step that discards a Return (its
\* callId has no entry: another instance's, never issued, or already settled
\* by an earlier delivery) settles no call and changes neither the table nor
\* the metrics; a call is settled only by the delivery of a Return whose
\* callId has an entry, which removes the entry; and no settled call is
\* settled again: it stays as it is and the metrics count one completion per
\* settled call.
C22_UnmatchedDiscarded ==
    [][/\ discarded' # discarded =>
             /\ invocation' = invocation
             /\ table' = table
             /\ functionMetrics' = functionMetrics
       /\ (functionMetrics' # functionMetrics
             \/ \E c \in FacadeCalls : invocation[c].status = "inflight"
                                        /\ invocation'[c] # invocation[c]) =>
             \E e \in channel :
                /\ e.returned.CallId \in DOMAIN table
                /\ e.returned.CallId \notin DOMAIN table'
                /\ invocation[table[e.returned.CallId]].status = "inflight"
                /\ \A c \in FacadeCalls :
                      invocation'[c] # invocation[c] => c = table[e.returned.CallId]
       /\ \A c \in SettledInvocations : invocation'[c] = invocation[c]
       /\ functionMetrics'["hello"].completed + functionMetrics'["add"].completed
             = Cardinality(SettledInvocations')]_vars

\* A call was settled by its Return, the Return was delivered again and
\* discarded, and another instance's Return was discarded too, while another
\* call is still outstanding.
C22_Witness ==
    /\ settledBy[1] = 1
    /\ {1, ForeignOrigin} \subseteq discarded
    /\ invocation[1].status = "resolved"
    /\ invocation[2].status = "inflight"
    /\ functionMetrics["hello"].completed + functionMetrics["add"].completed = 1

\* ---------------------------------------------------------------------- C23
\* C23 - stop() waits for children: stop() awaits the exit of every child that
\* is in state.resources.childProcesses when it is called, a child leaves the
\* awaited set only by emitting exit, and when stop() resolves every awaited
\* child has exited, the set of live child processes is empty and the funnel's
\* queue is empty.
C23_StopWaits ==
    [][\A s \in Stops :
          /\ (stopState[s] = "idle" /\ stopState'[s] = "waiting") =>
                awaiting'[s] = childProcesses
          /\ \A c \in awaiting[s] \ awaiting'[s] : child'[c] = "exited"
          /\ (stopState[s] = "waiting" /\ stopState'[s] = "resolved") =>
                /\ awaiting[s] = {}
                /\ childProcesses' = {}
                /\ pendingQueue' = <<>>]_vars

\* The same with every child process alive counted as live, whether or not it
\* is still in state.resources.childProcesses.
StopLeavesNoChildAlive ==
    [][\A s \in Stops :
          (stopState[s] = "waiting" /\ stopState'[s] = "resolved") =>
             \A c \in Calls : child'[c] # "alive"]_vars

\* A stop() that had a child to wait for has resolved.
StopResolvedAfterExit ==
    /\ lastOp.op = "stopResolve"
    /\ \E c \in Calls : child[c] = "exited"

\* The process backend where every child that was sent a kill signal
\* eventually exits and the await of stop() goes on when its promise resolves.
KilledExits(c) ==
    /\ c \in killed
    /\ \E how \in ExitKinds : ChildExit(c, how)

StopLiveSpec ==
    /\ Init /\ [][Next]_vars
    /\ \A c \in Calls : WF_vars(KilledExits(c))
    /\ \A s \in Stops : WF_vars(StopResolve(s))

\* stop() eventually resolves.
StopEventuallyResolves ==
    \A s \in Stops : (stopState[s] = "waiting") ~> (stopState[s] = "resolved")

\* ---------------------------------------------------------------------- C24
\* The process backend where every forked child eventually exits, in whichever
\* way, after having sent a message, failed, or neither.
ChildExits(c) == \E how \in ExitKinds : ChildExit(c, how)

ExitSpec == Init /\ [][Next]_vars /\ \A c \in Calls : WF_vars(ChildExits(c))

\* C24 - Every dispatched call settles: once the funnel has started a call's
\* operation (its child is forked), the call's promise eventually settles and
\* the funnel slot it holds is released, whatever the child does.
C24_DispatchedSettles ==
    \A c \in Calls :
        (c \in executing) ~> (c \notin executing /\ outcome[c] \in SettledOutcomes)

\* The child of a call has exited and the call's promise is still pending: no
\* event of that child is left to settle it, and it keeps its funnel slot.
ExitedUnsettled ==
    \E c \in Calls : child[c] = "exited" /\ outcome[c] = "pending" /\ c \in executing

\* ---------------------------------------------------------------------- C25
\* C25 - Bounded worker pool: with the cap set to N no step takes the number
\* of child processes forked and not yet exited (the size of
\* state.resources.childProcesses) above N: after any step it is at most N,
\* unless it was already above N before the step (the cap was lowered, or
\* calls were made before it was set) and the step did not raise it.  Hence
\* while the cap stays at N the pool never holds more than N children,
\* children that have sent their message and not yet exited included.
C25_BoundedWorkerPool ==
    [][maxConcurrency'.bounded =>
          Cardinality(childProcesses') <=
              Max(Cardinality(childProcesses), maxConcurrency'.n)]_vars

\* The cap is 1 since before the first call, and two children are in the pool:
\* the first has sent its message and has not exited, the second was forked
\* for the call that took its slot.
PoolAboveCap ==
    /\ maxConcurrency = Cap(1)
    /\ admitOrder = <<1, 2>>
    /\ outcome[1] = "value"
    /\ childProcesses = {1, 2}

\* ---------------------------------------------------------------------- C26
\* C26 - Response value/error exclusivity: every Response produced by
\* processResponse or by the AWS cloudifyWithResponse has either an error and
\* an undefined value, or no error and the Return's value; none has both an
\* error and a defined value.
C26_ValueErrorExclusive ==
    (last.via # "none" /\ ~last.threw) =>
        \/ last.response.error # {} /\ last.response.value = JsUndefined
        \/ last.response.error = {} /\ last.response.value = last.returned.value

\* What the code does keep: a Response with an error has the value false, never
\* the Return's value, and a Response without an error has the Return's value.
ErrorResponseValueIsFalse ==
    (last.via # "none" /\ ~last.threw) =>
        \/ last.response.error # {} /\ last.response.value = JsFalse
        \/ last.response.error = {} /\ last.response.value = last.returned.value

\* A Response with an error has been produced, by processResponse or by the
\* AWS proxy.
ErrorResponsesProduced ==
    /\ last.via \in {"resolve", "aws"}
    /\ last.response.error # {}
    /\ last.response.value = JsFalse

====
